---- MODULE Spec2Model ----
(***************************************************************************)
(* A model of enthought.enable2.abstract_window.AbstractWindow: the        *)
(* routing of pointer events (capture, enter/leave synthesis, focus), the  *)
(* capture manager (set_mouse_owner) and the paint cycle with its damage   *)
(* state.                                                                  *)
(*                                                                         *)
(* Every public operation of the window is one action.  The collaborators  *)
(* the window calls (components, the host toolkit, the graphics context)   *)
(* are observed through `trace', the list of calls the last operation made *)
(* on them, in order.  `call' holds the last operation and its arguments   *)
(* and `pre' the window's fields when that operation started.              *)
(*                                                                         *)
(* Python's None is modelled per type: the string "None" for object        *)
(* references, the empty tuple for a tuple-valued field (_size, a          *)
(* transform) and a record with is_none = TRUE for a list-valued field.    *)
(***************************************************************************)
EXTENDS Integers, Sequences, FiniteSets, TLC

VARIABLES
    component,                     \* AbstractWindow.component
    focus_owner,                   \* AbstractWindow.focus_owner
    mouse_owner,                   \* AbstractWindow.mouse_owner
    mouse_owner_transform,         \* AbstractWindow.mouse_owner_transform
    mouse_owner_dispatch_history,  \* AbstractWindow.mouse_owner_dispatch_history
    overlay,                       \* AbstractWindow.overlay
    use_damaged_region,            \* AbstractWindow.use_damaged_region
    prev_event_handler,            \* AbstractWindow._prev_event_handler
    size,                          \* AbstractWindow._size
    update_region,                 \* AbstractWindow._update_region
    gc,                            \* AbstractWindow._gc
    pointer_owner,                 \* AbstractWindow._pointer_owner
    control_size,                  \* what the host's _get_control_size() reports
    call,                          \* the last operation and its arguments
    pre,                           \* the window's fields when it started
    trace,                         \* the calls it made on its collaborators
    entered                        \* when it started: was the root's last
                                   \* mouse_enter / mouse_leave a mouse_enter

vars == <<component, focus_owner, mouse_owner, mouse_owner_transform,
          mouse_owner_dispatch_history, overlay, use_damaged_region,
          prev_event_handler, size, update_region, gc, pointer_owner,
          control_size, call, pre, trace, entered>>

----------------------------------------------------------------------------
(* Values *)

None == "None"

NoneTuple == <<>>

NoneList == [is_none |-> TRUE, items |-> <<>>]

ListOf(s) == [is_none |-> FALSE, items |-> s]

NoneGC == [created |-> FALSE, size |-> NoneTuple]

\* The Container() objects the window creates for itself when it is given
\* no root component.  Each one is a new object; the model follows one that
\* is still referenced by a field of the window.
Containers == {"container1"}

\* The components a window is given as its root.
Components == {"c1", "c2"}

\* The interactors that take the mouse: the root c1 or a nested component.
Owners == {"c1", "d1"}

\* Component geometry, (x, y, width, height).
ComponentBounds(c) ==
    CASE c = "c1" -> <<0, 0, 100, 100>>
      [] c = "c2" -> <<100, 100, 100, 100>>
      [] c \in Containers -> <<0, 0, 200, 200>>
      [] OTHER    -> <<0, 0, 0, 0>>

\* Component.is_in(x, y)
is_in(c, x, y) ==
    LET b == ComponentBounds(c)
    IN  /\ b[1] <= x /\ x < b[1] + b[3]
        /\ b[2] <= y /\ y < b[2] + b[4]

\* Interactor.accepts_focus
accepts_focus(c) == c \in {"c1"} \cup Containers

\* Whether the component's handlers mark the event they are given as handled.
MarksHandled(c) == c \in {"c1", "d1"}

\* Component.get_event_transform(): 2x2 matrices, row by row.
get_event_transform(c) ==
    CASE c = "h1" -> <<<<2, 0>>, <<0, 1>>>>
      [] c = "h2" -> <<<<1, 1>>, <<0, 1>>>>
      [] c = "h3" -> <<<<1, -1>>, <<0, 1>>>>
      [] OTHER    -> <<<<1, 0>>, <<0, 1>>>>

\* numpy.dot on 2x2 matrices
dot(a, b) ==
    << <<a[1][1] * b[1][1] + a[1][2] * b[2][1], a[1][1] * b[1][2] + a[1][2] * b[2][2]>>,
       <<a[2][1] * b[1][1] + a[2][2] * b[2][1], a[2][1] * b[1][2] + a[2][2] * b[2][2]>> >>

\* The transforms a component hands to set_mouse_owner.
Transforms == { <<<<1, 0>>, <<0, 2>>>>, <<<<0, 1>>, <<1, 0>>>> }

\* The histories a component hands to set_mouse_owner: lists of its ancestors
\* h1 and h2.
Histories == { <<>>, <<"h1">>, <<"h1", "h2">>, <<"h2", "h1">> }

\* The ancestors a dispatch history is made of, and the longest history the
\* model follows.
HistoryComponents == {"h1", "h2", "h3"}

MaxHistory == 3

\* Every non-empty history of at most MaxHistory ancestors.
HistoriesUpTo(n) == UNION { [1..k -> HistoryComponents] : k \in 1..n }

HistoryArgs == { <<"d1", NoneTuple, ListOf(h)>> : h \in HistoriesUpTo(MaxHistory) }

\* The arguments of a set_mouse_owner call: (mouse_owner, transform, history).
\* OwnerArgs leaves transform and history at their defaults.
OwnerArgs == { <<o, NoneTuple, NoneList>> : o \in Owners \cup {None} }

CaptureArgs ==
    (Owners \cup {None}) \X (Transforms \cup {NoneTuple})
        \X ({NoneList} \cup {ListOf(h) : h \in Histories})

\* Pointer positions (x, y).
Points == { <<50, 50>>, <<150, 150>>, <<250, 250>> }

\* Host-reported control sizes (dx, dy).
Sizes == { <<100, 100>>, <<200, 200>> }

\* Dirty rectangles (x, y, width, height) handed to invalidate_draw.
Rects == { <<0, 0, 10, 10>>, <<20, 30, 10, 10>> }

\* The rectangles _needs_redraw is asked about: the dirty rectangles, one
\* that overlaps them, one far from them and one of no extent.
Queries == Rects \cup { <<5, 5, 10, 10>>, <<500, 500, 5, 5>>, <<25, 35, 0, 0>> }

\* The longest list of dirty rectangles the model follows.
MaxRegions == 2

----------------------------------------------------------------------------
(* The window's fields as one record, as the operations below read and     *)
(* update them; `trace' collects the calls made on the collaborators.      *)

W ==
    [ component |-> component,
      focus_owner |-> focus_owner,
      mouse_owner |-> mouse_owner,
      mouse_owner_transform |-> mouse_owner_transform,
      mouse_owner_dispatch_history |-> mouse_owner_dispatch_history,
      overlay |-> overlay,
      use_damaged_region |-> use_damaged_region,
      prev_event_handler |-> prev_event_handler,
      size |-> size,
      update_region |-> update_region,
      gc |-> gc,
      pointer_owner |-> pointer_owner,
      trace |-> <<>> ]

Observe(w, entry) == [w EXCEPT !.trace = Append(@, entry)]

\* A frame of _handle_mouse_event: the window, the MouseEvent being routed,
\* the number of dispatches made so far, and the call-back (if any) that a
\* component's handler makes into the window during the at-th dispatch.
NoCallback == [at |-> 0, owner |-> None]

Frame(w, mouse_event, cb) == [w |-> w, ev |-> mouse_event, n |-> 0, cb |-> cb]

----------------------------------------------------------------------------
(* Capture manager *)

\* set_mouse_owner releasing the mouse without clearing what it stored
set_mouse_owner_keeps_transform(w, owner, transform, history) ==
    IF owner = None
    THEN [Observe(w, [op |-> "_release_mouse"]) EXCEPT !.mouse_owner = None]
    ELSE [Observe(w, [op |-> "_capture_mouse"]) EXCEPT
              !.mouse_owner = owner,
              !.mouse_owner_transform = transform,
              !.mouse_owner_dispatch_history = history]

\* set_mouse_owner asking the host for the capture only when no owner is
\* present, and for its release only when one is.
set_mouse_owner_balanced(w, owner, transform, history) ==
    IF owner = None
    THEN LET w1 == IF w.mouse_owner # None
                   THEN Observe(w, [op |-> "_release_mouse"])
                   ELSE w
         IN  [w1 EXCEPT !.mouse_owner = None,
                        !.mouse_owner_transform = NoneTuple,
                        !.mouse_owner_dispatch_history = NoneList]
    ELSE LET w1 == IF w.mouse_owner = None
                   THEN Observe(w, [op |-> "_capture_mouse"])
                   ELSE w
         IN  [w1 EXCEPT !.mouse_owner = owner,
                        !.mouse_owner_transform = transform,
                        !.mouse_owner_dispatch_history = history]

\* AbstractWindow.set_mouse_owner
set_mouse_owner(w, owner, transform, history) ==
    IF owner = None
    THEN [Observe(w, [op |-> "_release_mouse"]) EXCEPT
              !.mouse_owner = None,
              !.mouse_owner_transform = NoneTuple,
              !.mouse_owner_dispatch_history = NoneList]
    ELSE [Observe(w, [op |-> "_capture_mouse"]) EXCEPT
              !.mouse_owner = owner,
              !.mouse_owner_transform = transform,
              !.mouse_owner_dispatch_history = history]

----------------------------------------------------------------------------
(* Event router *)

\* The raw events the host delivers to the entry point of kind event_name:
\* the button or wheel of the kind is the one the event reports.
RawEvents(event_name) ==
    { [ x |-> p[1], y |-> p[2],
        left_down   |-> (event_name = "left_down"),
        middle_down |-> (event_name = "middle_down"),
        right_down  |-> (event_name = "right_down"),
        mouse_wheel |-> (IF event_name = "mouse_wheel" THEN 1 ELSE 0) ] : p \in Points }

\* AbstractWindow._create_mouse_event: a MouseEvent, not yet handled, with an
\* empty transform stack.
create_mouse_event(event) ==
    [ x |-> event.x, y |-> event.y,
      left_down |-> event.left_down, middle_down |-> event.middle_down,
      right_down |-> event.right_down, mouse_wheel |-> event.mouse_wheel,
      handled |-> FALSE ]

\* target.dispatch(mouse_event, event_name): the handler may mark the event
\* handled, and may call back into the window's set_mouse_owner.
Dispatch(f, target, event_name) ==
    LET seen == [op |-> "dispatch", to |-> target, name |-> event_name,
                 handled |-> f.ev.handled, x |-> f.ev.x, y |-> f.ev.y]
        f1 == [f EXCEPT !.w = Observe(@, seen),
                        !.ev.handled = @ \/ MarksHandled(target),
                        !.n = @ + 1]
    IN  IF f1.cb.at = f1.n
        THEN [f1 EXCEPT !.w = set_mouse_owner(@, f1.cb.owner, NoneTuple, NoneList)]
        ELSE f1

\* target.is_in(mouse_event.x, mouse_event.y), observed
HitTest(f, target) == [f EXCEPT !.w = Observe(@, [op |-> "is_in", to |-> target])]

\* The position (x, y) seen through a transform: the row vector times the
\* matrix.
ApplyTransform(p, transform) ==
    << p[1] * transform[1][1] + p[2] * transform[2][1],
       p[1] * transform[1][2] + p[2] * transform[2][2] >>

\* mouse_event.push_transform(transform): the event's position is seen
\* through the transform from here on.
PushTransform(f, transform) ==
    LET pos == ApplyTransform(<<f.ev.x, f.ev.y>>, transform)
    IN  [f EXCEPT !.w = Observe(@, [op |-> "push_transform", transform |-> transform]),
                  !.ev.x = pos[1], !.ev.y = pos[2]]

\* reduce(dot, transforms): a left fold, dot(dot(t1, t2), t3) ...
RECURSIVE reduce_dot(_)
reduce_dot(transforms) ==
    IF Len(transforms) = 1
    THEN transforms[1]
    ELSE dot(reduce_dot(SubSeq(transforms, 1, Len(transforms) - 1)),
             transforms[Len(transforms)])

\* transforms[::-1]
Reversed(s) == [i \in 1..Len(s) |-> s[Len(s) + 1 - i]]

\* The history's transforms composed in the order of the list.
total_transform_forward(history) ==
    LET transforms == [i \in 1..Len(history) |-> get_event_transform(history[i])]
    IN  reduce_dot(transforms)

\* _handle_mouse_event, lines 231-232: the transform of a non-empty history
total_transform(history) ==
    LET transforms == [i \in 1..Len(history) |-> get_event_transform(history[i])]
    IN  reduce_dot(Reversed(transforms))

\* The stored transform wins over the history.
ResolveTransform_prefers_stored(f) ==
    LET history == f.w.mouse_owner_dispatch_history
    IN  IF f.w.mouse_owner_transform # NoneTuple
        THEN PushTransform(f, f.w.mouse_owner_transform)
        ELSE IF ~history.is_none /\ Len(history.items) > 0
             THEN PushTransform(f, reduce_dot(Reversed(
                      [i \in 1..Len(history.items) |->
                           get_event_transform(history.items[i])])))
             ELSE f

\* _handle_mouse_event, lines 228-235: the transform pushed for a capture owner
ResolveTransform(f) ==
    LET history == f.w.mouse_owner_dispatch_history
    IN  IF ~history.is_none /\ Len(history.items) > 0
        THEN PushTransform(f, total_transform(history.items))
        ELSE IF f.w.mouse_owner_transform # NoneTuple
             THEN PushTransform(f, f.w.mouse_owner_transform)
             ELSE f

\* _handle_mouse_event, lines 223-238: a mouse_owner has grabbed the mouse
CapturedBranch(f, owner, event_name) ==
    LET f1 == ResolveTransform(f)
        f2 == Dispatch(f1, owner, event_name)
    IN  [f2 EXCEPT !.w.pointer_owner = owner]

\* _handle_mouse_event, lines 246-251: generate a mouse_leave event
LeaveStep(f) ==
    LET prev == f.w.prev_event_handler
    IN  IF prev # None
        THEN LET f1 == HitTest(f, prev)
             IN  IF ~is_in(prev, f.ev.x, f.ev.y)
                 THEN LET f2 == Dispatch(f1, prev, "pre_mouse_leave")
                          f3 == [f2 EXCEPT !.ev.handled = FALSE]
                          f4 == Dispatch(f3, prev, "mouse_leave")
                      IN  [f4 EXCEPT !.w.prev_event_handler = None]
                 ELSE f1
        ELSE f

\* The enter step without the test of the previous target
EnterStep_every_event(f) ==
    LET f1 == [f EXCEPT !.w.prev_event_handler = f.w.component]
        f2 == Dispatch(f1, f1.w.component, "pre_mouse_enter")
        f3 == [f2 EXCEPT !.ev.handled = FALSE]
    IN  Dispatch(f3, f3.w.component, "mouse_enter")

\* _handle_mouse_event, lines 255-259: generate a mouse_enter event
EnterStep(f) ==
    IF f.w.prev_event_handler # f.w.component
    THEN LET f1 == [f EXCEPT !.w.prev_event_handler = f.w.component]
             f2 == Dispatch(f1, f1.w.component, "pre_mouse_enter")
             f3 == [f2 EXCEPT !.ev.handled = FALSE]
         IN  Dispatch(f3, f3.w.component, "mouse_enter")
    ELSE f

\* The event fired with the handled flag as pre_<event> left it
FireStep_keeps_handled(f, event_name) ==
    LET f1 == Dispatch(f, f.w.component, "pre_" \o event_name)
    IN  Dispatch(f1, f1.w.component, event_name)

\* _handle_mouse_event, lines 261-264: fire the actual event
FireStep(f, event_name) ==
    LET f1 == Dispatch(f, f.w.component, "pre_" \o event_name)
        f2 == [f1 EXCEPT !.ev.handled = FALSE]
    IN  Dispatch(f2, f2.w.component, event_name)

\* The normal loop firing the event before the mouse_enter
NormalBranch_fires_first(f, event_name) ==
    IF (~f.ev.handled) /\ (f.w.component # None)
    THEN LET f1 == LeaveStep(f)
             f2 == HitTest(f1, f1.w.component)
         IN  IF is_in(f1.w.component, f1.ev.x, f1.ev.y)
             THEN EnterStep(FireStep(f2, event_name))
             ELSE f2
    ELSE f

\* _handle_mouse_event, lines 240-264: the normal event handling loop
NormalBranch(f, event_name) ==
    IF (~f.ev.handled) /\ (f.w.component # None)
    THEN LET f1 == LeaveStep(f)
             f2 == HitTest(f1, f1.w.component)
         IN  IF is_in(f1.w.component, f1.ev.x, f1.ev.y)
             THEN FireStep(EnterStep(f2), event_name)
             ELSE f2
    ELSE f

\* The focus step taking the focus from its owner
FocusStep_displaces(f, set_focus) ==
    IF set_focus
    THEN LET click == f.ev.left_down \/ f.ev.middle_down \/ f.ev.right_down
                        \/ f.ev.mouse_wheel # 0
             f1 == IF click THEN [f EXCEPT !.w = Observe(@, [op |-> "_set_focus"])] ELSE f
         IN  IF (f1.w.component # None) /\ accepts_focus(f1.w.component)
             THEN [f1 EXCEPT !.w = [Observe(@, [op |-> "focus_owner",
                                                to |-> f1.w.component])
                                        EXCEPT !.focus_owner = f1.w.component]]
             ELSE f1
    ELSE f

\* _handle_mouse_event, lines 270-281: the keyboard focus
FocusStep(f, set_focus) ==
    IF set_focus
    THEN LET click == f.ev.left_down \/ f.ev.middle_down \/ f.ev.right_down
                        \/ f.ev.mouse_wheel # 0
             f1 == IF click THEN [f EXCEPT !.w = Observe(@, [op |-> "_set_focus"])] ELSE f
         IN  IF (f1.w.component # None) /\ accepts_focus(f1.w.component)
             THEN IF f1.w.focus_owner = None
                  THEN [f1 EXCEPT !.w = [Observe(@, [op |-> "focus_owner",
                                                     to |-> f1.w.component])
                                             EXCEPT !.focus_owner = f1.w.component]]
                  ELSE f1
             ELSE f1
    ELSE f

\* _handle_mouse_event without the test of _size
handle_mouse_event_unrealized(w, event_name, event, cursor_check, set_focus, cb) ==
    LET f == Frame(w, create_mouse_event(event), cb)
        mouse_owner_local == w.mouse_owner
        routed == IF mouse_owner_local # None
                  THEN CapturedBranch(f, mouse_owner_local, event_name)
                  ELSE NormalBranch(f, event_name)
    IN  FocusStep(routed, set_focus).w

\* _handle_mouse_event running the normal loop after the owner's dispatch
handle_mouse_event_falls_through(w, event_name, event, cursor_check, set_focus, cb) ==
    IF w.size = NoneTuple
    THEN w
    ELSE LET f == Frame(w, create_mouse_event(event), cb)
             mouse_owner_local == w.mouse_owner
             routed == IF mouse_owner_local # None
                       THEN NormalBranch([CapturedBranch(f, mouse_owner_local, event_name)
                                              EXCEPT !.ev.handled = FALSE], event_name)
                       ELSE NormalBranch(f, event_name)
         IN  FocusStep(routed, set_focus).w

\* AbstractWindow._handle_mouse_event
handle_mouse_event(w, event_name, event, cursor_check, set_focus, cb) ==
    IF w.size = NoneTuple
    THEN w
    ELSE LET f == Frame(w, create_mouse_event(event), cb)
             mouse_owner_local == w.mouse_owner
             routed == IF mouse_owner_local # None
                       THEN CapturedBranch(f, mouse_owner_local, event_name)
                       ELSE NormalBranch(f, event_name)
         IN  FocusStep(routed, set_focus).w

\* The pointer entry points, lines 341-378
on_left_down(w, event, cb) == handle_mouse_event(w, "left_down", event, 0, TRUE, cb)

on_left_up(w, event, cb) == handle_mouse_event(w, "left_up", event, 0, FALSE, cb)

on_left_dclick(w, event, cb) == handle_mouse_event(w, "left_dclick", event, 0, FALSE, cb)

on_right_down(w, event, cb) == handle_mouse_event(w, "right_down", event, 0, TRUE, cb)

on_right_up(w, event, cb) == handle_mouse_event(w, "right_up", event, 0, FALSE, cb)

on_right_dclick(w, event, cb) == handle_mouse_event(w, "right_dclick", event, 0, FALSE, cb)

on_middle_down(w, event, cb) == handle_mouse_event(w, "middle_down", event, 0, FALSE, cb)

on_middle_up(w, event, cb) == handle_mouse_event(w, "middle_up", event, 0, FALSE, cb)

on_middle_dclick(w, event, cb) == handle_mouse_event(w, "middle_dclick", event, 0, FALSE, cb)

on_mouse_move(w, event, cb) == handle_mouse_event(w, "mouse_move", event, 1, FALSE, cb)

on_mouse_wheel(w, event, cb) == handle_mouse_event(w, "mouse_wheel", event, 0, FALSE, cb)

on_mouse_enter(w, event, cb) == handle_mouse_event(w, "mouse_enter", event, 0, FALSE, cb)

on_mouse_leave(w, event, cb) == handle_mouse_event(w, "mouse_leave", event, -1, FALSE, cb)

\* AbstractWindow._on_window_leave
on_window_leave(w, event, cb) ==
    IF w.prev_event_handler # None
    THEN LET f  == Frame(w, create_mouse_event(event), cb)
             f1 == Dispatch(f, w.prev_event_handler, "mouse_leave")
         IN  [f1.w EXCEPT !.prev_event_handler = None]
    ELSE w

----------------------------------------------------------------------------
(* Root component *)

\* Container(): a container no field of the window refers to
FreshContainers(w) ==
    Containers \ {w.component, w.prev_event_handler, w.focus_owner}

\* The root is replaced and a redraw requested, the damage state left as it
\* is.
component_changed_keeps_damage(w, new, container) ==
    LET installed == IF new = None THEN container ELSE new
    IN  Observe([w EXCEPT !.component = installed], [op |-> "_redraw"])

\* AbstractWindow._component_changed, for self.component = new.  An absent
\* new component is replaced by a Container(), whose assignment runs the
\* handler again.  The fit of the new component to the control's size
\* (lines 162-174) changes the component's own geometry, which is
\* ComponentBounds here; _prev_event_handler is not touched.
component_changed(w, new, container) ==
    LET installed == IF new = None THEN container ELSE new
        w1 == [w EXCEPT !.component = installed, !.update_region = NoneList]
    IN  Observe(w1, [op |-> "_redraw"])

----------------------------------------------------------------------------
(* Damage tracker and paint cycle *)

\* invalidate_draw that only ever appends: a call without regions leaves the
\* damage state as it is.
invalidate_draw_appends_only(w, damaged_regions) ==
    IF ~damaged_regions.is_none /\ ~w.update_region.is_none
    THEN [w EXCEPT !.update_region = ListOf(@.items \o damaged_regions.items)]
    ELSE w

\* AbstractWindow.invalidate_draw
invalidate_draw(w, damaged_regions) ==
    IF ~damaged_regions.is_none /\ ~w.update_region.is_none
    THEN [w EXCEPT !.update_region = ListOf(@.items \o damaged_regions.items)]
    ELSE [w EXCEPT !.update_region = NoneList]

\* base.empty_rectangle: the result of an intersection that is empty
empty_rectangle == <<>>

\* base.bounds_to_coordinates: (x, y, width, height) to (x0, y0, x1, y1)
bounds_to_coordinates(bounds) ==
    <<bounds[1], bounds[2], bounds[1] + bounds[3], bounds[2] + bounds[4]>>

max(a, b) == IF a >= b THEN a ELSE b

min(a, b) == IF a <= b THEN a ELSE b

\* base.intersect_coordinates: the overlap of two (x0, y0, x1, y1) rectangles
intersect_coordinates(coordinates1, coordinates2) ==
    LET xl == max(coordinates1[1], coordinates2[1])
        yb == max(coordinates1[2], coordinates2[2])
        xr == min(coordinates1[3], coordinates2[3])
        yt == min(coordinates1[4], coordinates2[4])
    IN  IF xr > xl /\ yt > yb THEN <<xl, yb, xr, yt>> ELSE empty_rectangle

\* base.does_disjoint_intersect_coordinates: does the rectangle intersect any
\* rectangle of the list; an absent list stands for the whole surface.
does_disjoint_intersect_coordinates(coordinates_list, coordinates) ==
    IF coordinates_list.is_none
    THEN TRUE
    ELSE \E i \in 1..Len(coordinates_list.items) :
             intersect_coordinates(coordinates, coordinates_list.items[i])
                 # empty_rectangle

\* AbstractWindow._needs_redraw: the entries of _update_region are handed to
\* the intersection test as they are; only the query is converted.
needs_redraw(w, bounds) ==
    does_disjoint_intersect_coordinates(w.update_region, bounds_to_coordinates(bounds))

\* base.union_bounds: the bounding rectangle of two (x, y, width, height)
union_bounds(a, b) ==
    LET Min(p, q) == IF p <= q THEN p ELSE q
        Max(p, q) == IF p >= q THEN p ELSE q
        x  == Min(a[1], b[1])
        y  == Min(a[2], b[2])
        x2 == Max(a[1] + a[3], b[1] + b[3])
        y2 == Max(a[2] + a[4], b[2] + b[4])
    IN  <<x, y, x2 - x, y2 - y>>

\* reduce(union_bounds, rects): a left fold over a non-empty list
RECURSIVE reduce_union_bounds(_)
reduce_union_bounds(rects) ==
    IF Len(rects) = 1
    THEN rects[1]
    ELSE union_bounds(reduce_union_bounds(SubSeq(rects, 1, Len(rects) - 1)),
                      rects[Len(rects)])

\* _paint creating the backing store once and never again
EnsureBackingStore_once(w, host_size) ==
    IF ~w.gc.created
    THEN [Observe(w, [op |-> "_create_gc", size |-> host_size]) EXCEPT
              !.gc = [created |-> TRUE, size |-> host_size],
              !.size = host_size]
    ELSE w

\* _paint, lines 305-308: the backing store follows the control's size
EnsureBackingStore(w, host_size) ==
    IF (w.size # host_size) \/ (~w.gc.created)
    THEN [Observe(w, [op |-> "_create_gc", size |-> host_size]) EXCEPT
              !.gc = [created |-> TRUE, size |-> host_size],
              !.size = host_size]
    ELSE w

\* The damage state is normalised to whole dirty for an empty list only,
\* whatever the mode.
PrepareContext_ignores_mode(w) ==
    LET w1 == IF ~w.update_region.is_none /\ w.update_region.items = <<>>
              THEN [w EXCEPT !.update_region = NoneList]
              ELSE w
    IN  IF w1.update_region.is_none
        THEN Observe(w1, [op |-> "clear"])
        ELSE Observe(w1, [op |-> "clip_to_rect",
                          rect |-> reduce_union_bounds(w1.update_region.items)])

\* _paint, lines 312-319: clear the whole context or clip to the damage
PrepareContext(w) ==
    LET w1 == IF (~w.update_region.is_none /\ w.update_region.items = <<>>)
                    \/ ~w.use_damaged_region
              THEN [w EXCEPT !.update_region = NoneList]
              ELSE w
    IN  IF w1.update_region.is_none
        THEN Observe(w1, [op |-> "clear"])
        ELSE Observe(w1, [op |-> "clip_to_rect",
                          rect |-> reduce_union_bounds(w1.update_region.items)])

\* _paint, lines 321-327: draw, blit and reset the damage state
DrawAndFlush(w, host_size) ==
    LET w1 == Observe(w, [op |-> "draw",
                          view_bounds |-> <<0, 0, host_size[1], host_size[2]>>])
        w2 == IF ~w1.use_damaged_region
              THEN [w1 EXCEPT !.update_region = NoneList]
              ELSE w1
        w3 == Observe(w2, [op |-> "_window_paint"])
    IN  [w3 EXCEPT !.update_region = ListOf(<<>>)]

\* AbstractWindow._paint
paint(w, host_size) ==
    LET w1 == EnsureBackingStore(w, host_size)
        w2 == Observe(w1, [op |-> "do_layout"])
        w3 == PrepareContext(w2)
    IN  DrawAndFlush(w3, host_size)

----------------------------------------------------------------------------
(* The state machine *)

NoEvent == [ x |-> 0, y |-> 0, left_down |-> FALSE, middle_down |-> FALSE,
             right_down |-> FALSE, mouse_wheel |-> 0 ]

Call(op, event) == [op |-> op, event |-> event]

\* The mouse_enter and mouse_leave dispatches the component `root' received
\* among the calls t, in order, by kind.
RootEnterLeave(t, root) ==
    LET d == SelectSeq(t, LAMBDA e : /\ e.op = "dispatch"
                                     /\ e.to = root
                                     /\ e.name \in {"mouse_enter", "mouse_leave"})
    IN  [i \in 1..Len(d) |-> d[i].name]

\* Whether the most recent mouse_enter or mouse_leave dispatch the root has
\* received is a mouse_enter; a root just assigned has received neither.
RootEntered ==
    LET received == RootEnterLeave(trace, pre.component)
    IN  IF call.op = "set_component"
        THEN FALSE
        ELSE IF received = <<>>
             THEN entered
             ELSE received[Len(received)] = "mouse_enter"

\* The operation recorded as c ends with the window as w.
Finish(c, w) ==
    /\ component' = w.component
    /\ focus_owner' = w.focus_owner
    /\ mouse_owner' = w.mouse_owner
    /\ mouse_owner_transform' = w.mouse_owner_transform
    /\ mouse_owner_dispatch_history' = w.mouse_owner_dispatch_history
    /\ overlay' = w.overlay
    /\ use_damaged_region' = w.use_damaged_region
    /\ prev_event_handler' = w.prev_event_handler
    /\ size' = w.size
    /\ update_region' = w.update_region
    /\ gc' = w.gc
    /\ pointer_owner' = w.pointer_owner
    /\ trace' = w.trace
    /\ call' = c
    /\ pre' = W
    /\ entered' = RootEntered
    /\ UNCHANGED control_size

\* The operation `op' ends with the window as w.
Return(op, event, w) == Finish(Call(op, event), w)

\* The window after __init__, given its traits.
Created(roots, modes, sizes) ==
    /\ component \in roots
    /\ focus_owner = None
    /\ mouse_owner = None
    /\ mouse_owner_transform = NoneTuple
    /\ mouse_owner_dispatch_history = NoneList
    /\ overlay = None
    /\ use_damaged_region \in modes
    /\ prev_event_handler = None
    /\ size = NoneTuple
    /\ update_region = NoneList
    /\ gc = NoneGC
    /\ pointer_owner = None
    /\ control_size \in sizes
    /\ call = Call("__init__", NoEvent)
    /\ pre = W
    /\ trace = <<>>
    /\ entered = FALSE

LeftDown == \E e \in RawEvents("left_down") : Return("left_down", e, on_left_down(W, e, NoCallback))

LeftUp == \E e \in RawEvents("left_up") : Return("left_up", e, on_left_up(W, e, NoCallback))

LeftDclick == \E e \in RawEvents("left_dclick") : Return("left_dclick", e, on_left_dclick(W, e, NoCallback))

RightDown == \E e \in RawEvents("right_down") : Return("right_down", e, on_right_down(W, e, NoCallback))

RightUp == \E e \in RawEvents("right_up") : Return("right_up", e, on_right_up(W, e, NoCallback))

RightDclick == \E e \in RawEvents("right_dclick") : Return("right_dclick", e, on_right_dclick(W, e, NoCallback))

MiddleDown == \E e \in RawEvents("middle_down") : Return("middle_down", e, on_middle_down(W, e, NoCallback))

MiddleUp == \E e \in RawEvents("middle_up") : Return("middle_up", e, on_middle_up(W, e, NoCallback))

MiddleDclick == \E e \in RawEvents("middle_dclick") : Return("middle_dclick", e, on_middle_dclick(W, e, NoCallback))

MouseMove == \E e \in RawEvents("mouse_move") : Return("mouse_move", e, on_mouse_move(W, e, NoCallback))

MouseWheel == \E e \in RawEvents("mouse_wheel") : Return("mouse_wheel", e, on_mouse_wheel(W, e, NoCallback))

MouseEnter == \E e \in RawEvents("mouse_enter") : Return("mouse_enter", e, on_mouse_enter(W, e, NoCallback))

MouseLeave == \E e \in RawEvents("mouse_leave") : Return("mouse_leave", e, on_mouse_leave(W, e, NoCallback))

WindowLeave == \E e \in RawEvents("window_leave") : Return("window_leave", e, on_window_leave(W, e, NoCallback))

SetMouseOwnerWith(args) ==
    \E a \in args :
        Return("set_mouse_owner", NoEvent, set_mouse_owner(W, a[1], a[2], a[3]))

\* set_mouse_owner(component) and set_mouse_owner(None)
SetOwner == SetMouseOwnerWith(OwnerArgs)

\* set_mouse_owner(component, transform, history), any argument absent or not
SetMouseOwner == SetMouseOwnerWith(CaptureArgs)

\* invalidate_draw() and invalidate_draw(damaged_regions)
InvalidateDraw ==
    \E damaged_regions \in {NoneList} \cup {ListOf(<<r>>) : r \in Rects} :
        /\ Len(update_region.items) + Len(damaged_regions.items) <= MaxRegions
        /\ Finish([op |-> "invalidate_draw", event |-> NoEvent,
                   damaged_regions |-> damaged_regions],
                  invalidate_draw(W, damaged_regions))

\* The use_damaged_region trait is set.
SetUseDamagedRegion ==
    Return("use_damaged_region", NoEvent, [W EXCEPT !.use_damaged_region = ~@])

\* self.component = new; the handler runs when the value changes.
SetComponent ==
    \E new \in Components \cup {None} :
        /\ new # component
        /\ \E container \in (IF new = None THEN FreshContainers(W) ELSE {None}) :
               Finish([op |-> "set_component", event |-> NoEvent, new |-> new],
                      component_changed(W, new, container))

Paint == Return("paint", NoEvent, paint(W, control_size))

\* The host resizes the control.
Resize ==
    /\ control_size' \in Sizes \ {control_size}
    /\ call' = Call("resized", NoEvent)
    /\ pre' = W
    /\ trace' = <<>>
    /\ entered' = RootEntered
    /\ UNCHANGED <<component, focus_owner, mouse_owner, mouse_owner_transform,
                   mouse_owner_dispatch_history, overlay, use_damaged_region,
                   prev_event_handler, size, update_region, gc, pointer_owner>>

PointerEvent ==
    \/ LeftDown \/ LeftUp \/ LeftDclick
    \/ RightDown \/ RightUp \/ RightDclick
    \/ MiddleDown \/ MiddleUp \/ MiddleDclick
    \/ MouseMove \/ MouseWheel \/ MouseEnter \/ MouseLeave

\* Event routing: every entry point, capture taken and released, the root
\* component reassigned, the window painted.
Init == Created(Components \cup Containers, {FALSE}, {<<100, 100>>})

Next ==
    \/ PointerEvent
    \/ WindowLeave
    \/ SetOwner
    \/ SetComponent
    \/ Paint

Spec == Init /\ [][Next]_vars

\* The capture manager: set_mouse_owner with every combination of arguments,
\* interleaved with pointer events on a painted or unpainted window.
InitCapture == Created({"c1"}, {FALSE}, {<<100, 100>>})

NextCapture ==
    \/ SetMouseOwner
    \/ PointerEvent
    \/ WindowLeave
    \/ Paint

SpecCapture == InitCapture /\ [][NextCapture]_vars

\* The paint cycle and the damage state.
InitPaint == Created(Components \cup Containers, BOOLEAN, Sizes)

NextPaint ==
    \/ Paint
    \/ Resize
    \/ InvalidateDraw
    \/ SetComponent
    \/ SetUseDamagedRegion

SpecPaint == InitPaint /\ [][NextPaint]_vars

\* set_mouse_owner(component, history = ancestors) by a component when no
\* owner is present, and set_mouse_owner(None) when one is.
SetHistory ==
    IF mouse_owner = None
    THEN SetMouseOwnerWith(HistoryArgs)
    ELSE SetMouseOwnerWith({<<None, NoneTuple, NoneList>>})

\* The transform of a dispatch history: capture taken with every history of
\* at most MaxHistory ancestors, and the pointer moved.
InitTransform == Created({"c1"}, {FALSE}, {<<100, 100>>})

NextTransform ==
    \/ SetHistory
    \/ MouseMove
    \/ Paint

SpecTransform == InitTransform /\ [][NextTransform]_vars

\* The calls a component's handler makes into the window while an event is
\* dispatched to it: set_mouse_owner(owner) or set_mouse_owner(None), during
\* any one of the at most six dispatches of a _handle_mouse_event call.
Callbacks == { [at |-> n, owner |-> o] : n \in 1..6, o \in Owners \cup {None} }

ReentrantMove ==
    \E e \in RawEvents("mouse_move"), cb \in Callbacks :
        Finish([op |-> "mouse_move", event |-> e, callback |-> cb],
               on_mouse_move(W, e, cb))

ReentrantLeftDown ==
    \E e \in RawEvents("left_down"), cb \in Callbacks :
        Finish([op |-> "left_down", event |-> e, callback |-> cb],
               on_left_down(W, e, cb))

\* Handlers that take, release or reassign the capture while the window is
\* dispatching to them.
InitReentrant == Created({"c1"}, {FALSE}, {<<100, 100>>})

NextReentrant ==
    \/ ReentrantMove
    \/ ReentrantLeftDown
    \/ SetOwner
    \/ Paint

SpecReentrant == InitReentrant /\ [][NextReentrant]_vars

----------------------------------------------------------------------------
(* Properties *)

\* The operations that are pointer entry points.
PointerOps ==
    { "left_down", "left_up", "left_dclick", "right_down", "right_up",
      "right_dclick", "middle_down", "middle_up", "middle_dclick",
      "mouse_move", "mouse_wheel", "mouse_enter", "mouse_leave" }

\* The dispatches of the last operation, in order, as (target, kind).
Dispatched ==
    LET d == SelectSeq(trace, LAMBDA e : e.op = "dispatch")
    IN  [i \in 1..Len(d) |-> <<d[i].to, d[i].name>>]

\* The containment tests of the last operation.
HitTests == SelectSeq(trace, LAMBDA e : e.op = "is_in")

\* C1 as stated: in every state reached by set_mouse_owner calls and pointer
\* events, the capture owner is absent if and only if the capture transform
\* and the dispatch history are both absent.
C1_OwnerAbsentIffTransformAndHistoryAbsent ==
    (mouse_owner = None) <=>
        (mouse_owner_transform = NoneTuple /\ mouse_owner_dispatch_history.is_none)

\* C1 as amended: whenever the capture owner is absent, the capture transform
\* and the dispatch history are both absent (an owner may be present with
\* neither).
C1_OwnerAbsentImpliesTransformAndHistoryAbsent ==
    (mouse_owner = None) =>
        (mouse_owner_transform = NoneTuple /\ mouse_owner_dispatch_history.is_none)

\* An owner holding a transform and a history has released the mouse.
C1_Witness ==
    /\ call.op = "set_mouse_owner"
    /\ pre.mouse_owner # None
    /\ pre.mouse_owner_transform # NoneTuple
    /\ ~pre.mouse_owner_dispatch_history.is_none
    /\ mouse_owner = None

\* C2 as stated: the previous-event-target is always absent, the current
\* root component, or the overlay.
C2_PrevIsAbsentRootOrOverlay ==
    prev_event_handler \in {None, component, overlay}

\* C3: after every paint the recorded backing-store size is the size the host
\* reports, a backing context of that size exists, and the damage state is
\* the empty list.
C3_PaintPostcondition ==
    (call.op = "paint") =>
        /\ size = control_size
        /\ gc.created
        /\ gc.size = control_size
        /\ update_region = ListOf(<<>>)

\* A paint of a window whose backing store had another size and whose damage
\* state was a non-empty list, in damaged-region mode.
C3_Witness ==
    /\ call.op = "paint"
    /\ pre.size # NoneTuple
    /\ pre.size # control_size
    /\ pre.use_damaged_region
    /\ ~pre.update_region.is_none
    /\ pre.update_region.items # <<>>
    /\ size = control_size

\* C4 as stated: after a paint with damaged-region mode disabled the damage
\* state is "whole dirty" (absent).
C4_PaintLeavesWholeDirtyWhenModeDisabled ==
    (call.op = "paint" /\ ~pre.use_damaged_region) => update_region.is_none

\* C5: a mouse_move with no capture owner, on a realized window whose
\* previous target is absent or the root: moving into the root's bounds dispatches exactly
\* one enter pair to the root, before the move pair, and no leave; moving
\* within the bounds dispatches the move pair alone; the first move out of
\* the bounds dispatches the leave pair to the root and nothing else; a move
\* outside with no previous target dispatches nothing.
C5_MoveEnterLeave ==
    ( /\ call.op = "mouse_move"
      /\ pre.size # NoneTuple
      /\ pre.mouse_owner = None
      /\ pre.prev_event_handler \in {None, pre.component} ) =>
        LET root   == pre.component
            inside == is_in(root, call.event.x, call.event.y)
            was_in == pre.prev_event_handler = root
        IN  /\ (inside /\ ~was_in) =>
                /\ Dispatched = << <<root, "pre_mouse_enter">>, <<root, "mouse_enter">>,
                                   <<root, "pre_mouse_move">>, <<root, "mouse_move">> >>
                /\ prev_event_handler = root
            /\ (inside /\ was_in) =>
                /\ Dispatched = << <<root, "pre_mouse_move">>, <<root, "mouse_move">> >>
                /\ prev_event_handler = root
            /\ (~inside /\ was_in) =>
                /\ Dispatched = << <<root, "pre_mouse_leave">>, <<root, "mouse_leave">> >>
                /\ prev_event_handler = None
            /\ (~inside /\ ~was_in) =>
                /\ Dispatched = <<>>
                /\ prev_event_handler = None

\* The pointer, which had entered the root, moves out of its bounds.
C5_Witness ==
    /\ call.op = "mouse_move"
    /\ pre.size # NoneTuple
    /\ pre.mouse_owner = None
    /\ pre.prev_event_handler = pre.component
    /\ ~is_in(pre.component, call.event.x, call.event.y)
    /\ Dispatched = << <<pre.component, "pre_mouse_leave">>,
                       <<pre.component, "mouse_leave">> >>

\* C6: with a capture owner set on a realized window, an event of any kind
\* at any position is dispatched once, to the owner, as that kind; nothing else is dispatched
\* (no enter, leave or pre_ event), no containment test is made and the
\* previous-event-target is unchanged.
C6_CapturedEventGoesToOwnerOnly ==
    ( /\ call.op \in PointerOps
      /\ pre.size # NoneTuple
      /\ pre.mouse_owner # None ) =>
        /\ Dispatched = << <<pre.mouse_owner, call.op>> >>
        /\ HitTests = <<>>
        /\ prev_event_handler = pre.prev_event_handler

\* A captured move outside the bounds of the root, which is the previous
\* target: the normal loop would have sent it a mouse_leave.
C6_Witness ==
    /\ call.op = "mouse_move"
    /\ pre.size # NoneTuple
    /\ pre.mouse_owner = "d1"
    /\ pre.prev_event_handler = component
    /\ ~is_in(component, call.event.x, call.event.y)
    /\ Dispatched = << <<"d1", "mouse_move">> >>

\* C7: while no paint has established a backing-store size, every pointer
\* entry point and the window-leave notification calls no collaborator (no
\* dispatch, no host focus request) and leaves the focus owner, the
\* previous-event-target, the pointer-target-of-record, the capture state
\* and the damage state unchanged.
C7_UnrealizedWindowDropsEvents ==
    ( /\ call.op \in PointerOps \cup {"window_leave"}
      /\ pre.size = NoneTuple ) =>
        /\ trace = <<>>
        /\ focus_owner = pre.focus_owner
        /\ prev_event_handler = pre.prev_event_handler
        /\ pointer_owner = pre.pointer_owner
        /\ mouse_owner = pre.mouse_owner
        /\ mouse_owner_transform = pre.mouse_owner_transform
        /\ mouse_owner_dispatch_history = pre.mouse_owner_dispatch_history
        /\ update_region = pre.update_region

\* A left_down inside a focus-accepting root, with a capture owner set,
\* before the first paint.
C7_Witness ==
    /\ call.op = "left_down"
    /\ pre.size = NoneTuple
    /\ pre.mouse_owner # None
    /\ accepts_focus(component)
    /\ is_in(component, call.event.x, call.event.y)

\* C8 as stated: after a left_down, right_down, middle_down or mouse_wheel
\* event on a realized window whose root accepts focus and that has no focus
\* owner, the focus owner is the root component.
C8_ButtonDownAndWheelTakeFocus ==
    ( /\ call.op \in {"left_down", "right_down", "middle_down", "mouse_wheel"}
      /\ pre.size # NoneTuple
      /\ accepts_focus(pre.component)
      /\ pre.focus_owner = None ) =>
        focus_owner = pre.component

\* The entry points that ask _handle_mouse_event to set the focus.
SetFocusOps == {"left_down", "right_down"}

C10_LeftDownEntersFiresAndFocuses ==
    ( /\ call.op = "left_down"
      /\ call.event.left_down
      /\ pre.size # NoneTuple
      /\ pre.mouse_owner = None
      /\ pre.prev_event_handler = None
      /\ pre.focus_owner = None
      /\ is_in(pre.component, call.event.x, call.event.y)
      /\ accepts_focus(pre.component) ) =>
        LET root == pre.component
        IN  /\ Dispatched = << <<root, "pre_mouse_enter">>, <<root, "mouse_enter">>,
                               <<root, "pre_left_down">>, <<root, "left_down">> >>
            /\ Len(trace) = 7
            /\ trace[1] = [op |-> "is_in", to |-> root]
            /\ \A i \in 2..5 : trace[i].op = "dispatch"
            /\ trace[6] = [op |-> "_set_focus"]
            /\ trace[7] = [op |-> "focus_owner", to |-> root]
            /\ focus_owner = root
            /\ prev_event_handler = root

\* Such a left_down has been handled.
C10_Witness ==
    /\ call.op = "left_down"
    /\ call.event.left_down
    /\ pre.size # NoneTuple
    /\ pre.mouse_owner = None
    /\ pre.prev_event_handler = None
    /\ pre.focus_owner = None
    /\ is_in(pre.component, call.event.x, call.event.y)
    /\ accepts_focus(pre.component)
    /\ focus_owner = component

----------------------------------------------------------------------------
(* The damage tracker *)

\* _needs_redraw answers true whatever rectangle it is asked about.
EveryQueryNeedsRedraw == \A q \in Queries : needs_redraw(W, q)

\* C11: after invalidate_draw() without regions, _needs_redraw is true for
\* every query rectangle, whatever the damage state was before, and it stays
\* true through every further operation (invalidate_draw with or without
\* regions included) until the window is painted.
C11_WholeDirtyDominatesUntilPaint ==
    /\ (call.op = "invalidate_draw" /\ call.damaged_regions.is_none)
           => EveryQueryNeedsRedraw
    /\ (call.op # "paint" /\ pre.update_region.is_none)
           => EveryQueryNeedsRedraw

\* invalidate_draw() on a list of dirty rectangles that does not cover every
\* query, and invalidate_draw(regions) on a whole-dirty window.
C11_Witness ==
    /\ call.op = "invalidate_draw"
    /\ call.damaged_regions.is_none
    /\ ~pre.update_region.is_none
    /\ \E q \in Queries : ~needs_redraw(pre, q)

\* Two (x, y, width, height) rectangles that share no area.
BoundsDisjoint(a, b) ==
    \/ a[1] + a[3] <= b[1]
    \/ b[1] + b[3] <= a[1]
    \/ a[2] + a[4] <= b[2]
    \/ b[2] + b[4] <= a[2]

\* C12: with damaged-region mode enabled and a list of dirty rectangles as
\* the damage state, after invalidate_draw([R]) for a rectangle R of positive
\* width and height, given as the (x, y, width, height) the next paint clips
\* to, _needs_redraw(R) is true, and _needs_redraw(R2) is false for every R2
\* disjoint from all the tracked rectangles.
C12_InvalidatedRectNeedsRedraw ==
    (/\ call.op = "invalidate_draw"
     /\ ~call.damaged_regions.is_none
     /\ pre.use_damaged_region
     /\ ~pre.update_region.is_none)
        => /\ \A i \in 1..Len(call.damaged_regions.items) :
                LET R == call.damaged_regions.items[i]
                IN  (R[3] > 0 /\ R[4] > 0) => needs_redraw(W, R)
           /\ \A R2 \in Queries :
                (\A j \in 1..Len(update_region.items) :
                    BoundsDisjoint(R2, update_region.items[j]))
                    => ~needs_redraw(W, R2)

----------------------------------------------------------------------------
(* The transform pushed for a capture owner *)

\* The transforms pushed onto the event during the last operation.
Pushed ==
    LET p == SelectSeq(trace, LAMBDA t : t.op = "push_transform")
    IN  [i \in 1..Len(p) |-> p[i].transform]

\* The position p after the transforms of history[n], history[n - 1], ...,
\* history[1] have been applied to it one by one; a history lists the
\* ancestors from the root down, so the first applied is the target's parent.
RECURSIVE ApplySuccessively(_, _)
ApplySuccessively(p, history) ==
    IF history = <<>>
    THEN p
    ELSE ApplySuccessively(
             ApplyTransform(p, get_event_transform(history[Len(history)])),
             SubSeq(history, 1, Len(history) - 1))

\* The history with its entries i and j exchanged.
Swapped(history, i, j) ==
    [k \in 1..Len(history) |->
        IF k = i THEN history[j] ELSE IF k = j THEN history[i] ELSE history[k]]

Commute(a, b) == dot(a, b) = dot(b, a)

Invertible(a) == a[1][1] * a[2][2] - a[1][2] * a[2][1] # 0

\* The last operation was a mouse_move delivered to a capture owner that has
\* a non-empty dispatch history.
MovedWithHistory ==
    /\ call.op = "mouse_move"
    /\ pre.size # NoneTuple
    /\ pre.mouse_owner # None
    /\ ~pre.mouse_owner_dispatch_history.is_none
    /\ pre.mouse_owner_dispatch_history.items # <<>>

\* C13 as stated: for a non-empty history the single pushed transform is the
\* successive application of the ancestors' transforms from the parent up to
\* the root, and exchanging any two entries whose transforms do not commute
\* changes the pushed transform.
C13_AnySwapOfNonCommutingChangesTransform ==
    MovedWithHistory =>
        LET history == pre.mouse_owner_dispatch_history.items
        IN  /\ Len(Pushed) = 1
            /\ \A p \in Points :
                   ApplyTransform(p, Pushed[1]) = ApplySuccessively(p, history)
            /\ \A i, j \in 1..Len(history) :
                   (i < j /\ ~Commute(get_event_transform(history[i]),
                                      get_event_transform(history[j])))
                       => total_transform(Swapped(history, i, j)) # Pushed[1]

\* C13: for a non-empty history the single pushed transform is the
\* successive application of the ancestors' transforms from the parent up to
\* the root, and exchanging two neighbouring entries whose transforms do not
\* commute changes the pushed transform when every other transform of the
\* history is invertible.
C13_NeighbourSwapOfNonCommutingChangesTransform ==
    MovedWithHistory =>
        LET history == pre.mouse_owner_dispatch_history.items
        IN  /\ Len(Pushed) = 1
            /\ \A p \in Points :
                   ApplyTransform(p, Pushed[1]) = ApplySuccessively(p, history)
            /\ \A i \in 1..(Len(history) - 1) :
                   (/\ ~Commute(get_event_transform(history[i]),
                                get_event_transform(history[i + 1]))
                    /\ \A k \in 1..Len(history) \ {i, i + 1} :
                           Invertible(get_event_transform(history[k])))
                       => total_transform(Swapped(history, i, i + 1)) # Pushed[1]

\* A move under a history of three ancestors whose first two transforms do
\* not commute.
C13_Witness ==
    /\ MovedWithHistory
    /\ Len(pre.mouse_owner_dispatch_history.items) = 3
    /\ ~Commute(get_event_transform(pre.mouse_owner_dispatch_history.items[1]),
                get_event_transform(pre.mouse_owner_dispatch_history.items[2]))

\* The dispatches of the last operation, as the targets saw them.
Dispatches == SelectSeq(trace, LAMBDA t : t.op = "dispatch")

\* The last operation was a pointer event on a realized window with a
\* capture owner.
CapturedPointer ==
    /\ call.op \in PointerOps
    /\ pre.size # NoneTuple
    /\ pre.mouse_owner # None

\* C14: in the captured branch exactly one of three things happens.  With a
\* non-empty history the composed transform is pushed and the stored single
\* transform is ignored; with an absent or empty history and a stored
\* transform T exactly T is pushed, and the event reaches the owner with the
\* position T applied to the raw position, whatever the root's bounds; with
\* neither, nothing is pushed and the owner sees the raw position.
C14_ExactlyOneTransformSource ==
    CapturedPointer =>
        LET history == pre.mouse_owner_dispatch_history
            T == pre.mouse_owner_transform
            raw == <<call.event.x, call.event.y>>
            delivered == <<Dispatches[1].x, Dispatches[1].y>>
        IN  /\ Len(Dispatches) = 1
            /\ Dispatches[1].to = pre.mouse_owner
            /\ IF ~history.is_none /\ history.items # <<>>
               THEN /\ Pushed = <<total_transform(history.items)>>
                    /\ delivered = ApplyTransform(raw, total_transform(history.items))
               ELSE IF T # NoneTuple
                    THEN /\ Pushed = <<T>>
                         /\ delivered = ApplyTransform(raw, T)
                    ELSE /\ Pushed = <<>>
                         /\ delivered = raw

\* A mouse_move outside the root reaches an owner that has a stored
\* transform and an empty history.
C14_Witness ==
    /\ CapturedPointer
    /\ call.op = "mouse_move"
    /\ pre.mouse_owner_dispatch_history = ListOf(<<>>)
    /\ pre.mouse_owner_transform # NoneTuple
    /\ ~is_in(pre.component, call.event.x, call.event.y)
    /\ <<Dispatches[1].x, Dispatches[1].y>> # <<call.event.x, call.event.y>>

----------------------------------------------------------------------------
(* Handlers that call back into the window *)

\* C15: when a handler called during a dispatch takes, releases or reassigns
\* the capture, the rest of the same _handle_mouse_event call goes by the
\* capture state as it is then: every later dispatch of the call goes to the
\* owner the handler installed, and _pointer_owner is not left referring to
\* an owner released or replaced during the call.
C15_LaterStepsUseCurrentCaptureState ==
    (call.op \in PointerOps /\ pre.size # NoneTuple) =>
        /\ pre.mouse_owner # None => pointer_owner = mouse_owner
        /\ \A i \in 1..Len(Dispatches) :
               (i > call.callback.at /\ call.callback.owner # None)
                   => Dispatches[i].to = call.callback.owner

----------------------------------------------------------------------------
(* The paint cycle *)

\* The gc.clear and gc.clip_to_rect calls of the last operation.
Clears == SelectSeq(trace, LAMBDA t : t.op = "clear")

Clips == SelectSeq(trace, LAMBDA t : t.op = "clip_to_rect")

\* C16: assigning the root (an absent value installs a default container,
\* so the root is never absent) leaves the damage state whole dirty and
\* requests one redraw; the whole-dirty state survives every operation but a
\* paint, invalidate_draw with regions included, and the paint that finds it
\* clears the entire context and clips to nothing.
C16_RootChangeForcesFullClear ==
    /\ component # None
    /\ call.op = "set_component" =>
           /\ component = (IF call.new = None THEN component ELSE call.new)
           /\ (call.new = None => component \in Containers)
           /\ update_region.is_none
           /\ trace = <<[op |-> "_redraw"]>>
    /\ (call.op # "paint" /\ pre.update_region.is_none) => update_region.is_none
    /\ (call.op = "paint" /\ pre.update_region.is_none) =>
           (Len(Clears) = 1 /\ Len(Clips) = 0)

\* A second paint, in damaged-region mode, of a window whose damage state is
\* whole dirty.
C16_Witness ==
    /\ call.op = "paint"
    /\ pre.update_region.is_none
    /\ pre.use_damaged_region
    /\ pre.gc.created
    /\ pre.component \in Containers
    /\ Len(Clears) = 1

\* C17: every paint either clears the whole context or clips to the union
\* of a non-empty dirty list, never both and never neither.  It clears
\* whenever the mode is disabled, the state is whole dirty or the list is
\* empty (as it is after a paint with no invalidate_draw since), and clips
\* only when the mode is enabled and the list is non-empty.
C17_PaintClearsOrClips ==
    call.op = "paint" =>
        LET clips == /\ pre.use_damaged_region
                     /\ ~pre.update_region.is_none
                     /\ pre.update_region.items # <<>>
        IN  /\ Len(Clears) + Len(Clips) = 1
            /\ Len(Clips) = 1 <=> clips
            /\ clips => Clips[1].rect = reduce_union_bounds(pre.update_region.items)

\* A paint in damaged-region mode that clips to the union of two rectangles.
C17_Witness ==
    /\ call.op = "paint"
    /\ pre.use_damaged_region
    /\ ~pre.update_region.is_none
    /\ Len(pre.update_region.items) = 2
    /\ pre.update_region.items[1] # pre.update_region.items[2]
    /\ Len(Clips) = 1

----------------------------------------------------------------------------
(* The normal event handling loop *)

\* The last operation was a pointer event on a realized window without a
\* capture owner.
NormalPointer ==
    /\ call.op \in PointerOps
    /\ pre.size # NoneTuple
    /\ pre.mouse_owner = None

\* The kinds the normal loop delivers for the last event, in order, each
\* with its target: mouse_leave to the previous target when the position
\* has left it, mouse_enter to the root when the position is inside it and
\* it is not the previous target, the event kind to the root when the
\* position is inside it.
Delivered ==
    LET prev   == pre.prev_event_handler
        root   == pre.component
        leaves == prev # None /\ ~is_in(prev, call.event.x, call.event.y)
        inside == is_in(root, call.event.x, call.event.y)
        enters == inside /\ (IF leaves THEN None ELSE prev) # root
    IN  (IF leaves THEN << <<prev, "mouse_leave">> >> ELSE <<>>)
        \o (IF enters THEN << <<root, "mouse_enter">> >> ELSE <<>>)
        \o (IF inside THEN << <<root, call.op>> >> ELSE <<>>)

\* C18: in the normal branch every delivered kind K (mouse_leave,
\* mouse_enter, the event kind) is dispatched as pre_K and then at once as K
\* to the same component, the handled flag false again when K is dispatched
\* whatever the pre_K handler set; the pairs come in the order leave (to the
\* previous target), enter, event (both to the root), and when the root does
\* not contain the position nothing but the leave pair is dispatched.
C18_PreThenKindPairsInOrder ==
    NormalPointer =>
        /\ Len(Dispatches) = 2 * Len(Delivered)
        /\ \A k \in 1..Len(Delivered) :
               /\ Dispatches[2 * k - 1].to = Delivered[k][1]
               /\ Dispatches[2 * k - 1].name = "pre_" \o Delivered[k][2]
               /\ Dispatches[2 * k].to = Delivered[k][1]
               /\ Dispatches[2 * k].name = Delivered[k][2]
               /\ Dispatches[2 * k].handled = FALSE
        /\ ~is_in(pre.component, call.event.x, call.event.y) =>
               \A i \in 1..Len(Dispatches) :
                   /\ Dispatches[i].to = pre.prev_event_handler
                   /\ Dispatches[i].name \in {"pre_mouse_leave", "mouse_leave"}

\* An event that leaves the previous target and enters a root whose
\* handlers mark the event handled: three pairs.
C18_Witness ==
    /\ NormalPointer
    /\ Len(Dispatches) = 6
    /\ MarksHandled(pre.component)
    /\ Dispatches[1].to # Dispatches[3].to
    /\ Dispatches[5].handled

----------------------------------------------------------------------------
(* Capture against the other entry points and the host *)

\* C19: while a capture owner is present every dispatch goes to the owner:
\* no entry point, _on_window_leave included, dispatches to anything else or
\* changes the previous target.
C19_CaptureRoutesEveryDispatchToOwner ==
    (call.op \in PointerOps \cup {"window_leave"} /\ pre.mouse_owner # None) =>
        /\ \A i \in 1..Len(Dispatches) : Dispatches[i].to = pre.mouse_owner
        /\ prev_event_handler = pre.prev_event_handler

\* The host capture requests and releases of the last operation.
CaptureRequests == SelectSeq(trace, LAMBDA t : t.op = "_capture_mouse")

CaptureReleases == SelectSeq(trace, LAMBDA t : t.op = "_release_mouse")

\* C20 as stated: set_mouse_owner asks the host for the capture only when no
\* owner was present before the call, and for its release only when one was.
C20_CaptureRequestsAreBalanced ==
    call.op = "set_mouse_owner" =>
        /\ Len(CaptureRequests) > 0 => pre.mouse_owner = None
        /\ Len(CaptureReleases) > 0 => pre.mouse_owner # None

\* C20: every set_mouse_owner call that leaves an owner present makes
\* exactly one host capture request and no release, and every call that
\* leaves the owner absent makes exactly one host release and no request,
\* whether or not an owner was present before the call.
C20_EveryCallAsksTheHost ==
    call.op = "set_mouse_owner" =>
        IF mouse_owner # None
        THEN trace = <<[op |-> "_capture_mouse"]>>
        ELSE trace = <<[op |-> "_release_mouse"]>>

\* The capture passes from one owner to another.
C20_Witness ==
    /\ call.op = "set_mouse_owner"
    /\ pre.mouse_owner # None
    /\ mouse_owner # None
    /\ mouse_owner # pre.mouse_owner
    /\ Len(CaptureRequests) = 1

----------------------------------------------------------------------------
(* mouse_enter and mouse_leave at the root *)

\* C21: over any sequence of pointer events of every kind (the host's own
\* mouse_enter and mouse_leave included) and window-leave notifications, the
\* mouse_enter and mouse_leave dispatches the root receives strictly
\* alternate, starting with mouse_enter: the ones of the last operation
\* carry on from the last one the root received before it.
C21_RootEnterLeaveAlternate ==
    LET received == RootEnterLeave(trace, pre.component)
    IN  \A i \in 1..Len(received) :
            received[i] = (IF (i % 2 = 1) = entered
                           THEN "mouse_leave"
                           ELSE "mouse_enter")

====
